---- MODULE Spec2Model ----
(***************************************************************************)
(* pasta: the capture engine.                                              *)
(*                                                                         *)
(*   src/pasta/shell.py   Typescript: the segmenter (wrap) and the history *)
(*   src/pasta/actions.py Action: the record appended to the history       *)
(*   src/pasta/pty.py     PseudoTerminal.spool: the I/O loop that feeds    *)
(*                        wrap, and the flush after the loop               *)
(*                                                                         *)
(* Byte strings are sequences of byte values.                              *)
(***************************************************************************)
EXTENDS Integers, Sequences, FiniteSets, TLC

\* ------------------------------------------------------------------------
\* Bounds of the model
\* ------------------------------------------------------------------------
\* histsize of Typescript.__init__ (default 1000), kept small so that the
\* history overflows.
HistSize == 2
\* Number of wrap calls of a run.
MaxEvents == 6
\* Number of wrap calls of a run that fills the history.
MaxHistEvents == 8
\* spool(waterlevel=...) (default 4096) and spool(readsize=...) (default 1024)
WaterLevel == 2
ReadSize == 3
\* Room of the pseudo-terminal for input the child has not read yet.
PtyCap == 2
\* Payloads the user types, and payloads the child writes, in a session.
MaxTyped == 3
MaxWritten == 2
\* Handlers registered on a Typescript, and wrap calls after them.
MaxHandlers == 3
MaxHandlerEvents == 3
\* Last reading of the clock, and wrap calls of a run under a moving clock.
MaxClock == 2
MaxClockEvents == 6

\* ------------------------------------------------------------------------
\* Program constants
\* ------------------------------------------------------------------------
\* termios.CEOF, the default EOF byte (Ctrl-D)
CEOF == 4
\* b"\n"
LF == 10
\* b"\r"
CR == 13
\* an ordinary byte of the user ("a")
KEY == 97
\* an ordinary byte of the child's standard output ("x")
OUT == 120
\* an ordinary byte of the child's standard error ("e")
ERR == 101
\* a byte of the prompt the child prints ("$")
PROMPT == 36

\* class Event(enum.IntEnum)
STDIN == 0
STDOUT == 1
STDERR == 2
Event == {STDIN, STDOUT, STDERR}

\* Typescript.crlf
crlf == <<CR, LF>>
\* Typescript.eof as spool constructs it: bytes([eof])
eof == <<CEOF>>

\* bytes.endswith
EndsWith(s, t) ==
  /\ Len(s) >= Len(t)
  /\ SubSeq(s, Len(s) - Len(t) + 1, Len(s)) = t

Min(a, b) == IF a < b THEN a ELSE b

\* s[:n] and s[n:]
Take(s, n) == SubSeq(s, 1, Min(n, Len(s)))
Drop(s, n) == SubSeq(s, n + 1, Len(s))

\* ------------------------------------------------------------------------
\* State
\* ------------------------------------------------------------------------
VARIABLES
  ts,       \* the Typescript object: buffers, start_time, handlers, actions
  now,      \* the wall clock read by datetime.utcnow()
  n_uuid,   \* number of uuid4() identifiers drawn so far (Action.id)
  last,     \* the most recent wrap call: event, argument and return value
  nev,      \* number of wrap calls so far
  seg,      \* what wrap observed since the last Action was appended
  segs,     \* segs[k]: what wrap observed for the Action with id k
  seg_t0,   \* the clock when the open command got its first prompt or input
            \* byte, -1 while it has none
  pc,       \* where spool is: "idle", "loop", "flush", "except", "finally", "done"
  echo,     \* spool(echo=...): the slave echoes what is written to the master
  proc,     \* the child: "none", "running", "exited", "killed"
  exc,      \* the exception in flight, and the one the except clause caught
  buf_i,    \* spool's buffer of real stdin, to be written to the master
  buf_p,    \* spool's buffer of what was read from the master
  buf_o,    \* spool's buffer of the child's stdout
  buf_e,    \* spool's buffer of the child's stderr
  tty_in,   \* keystrokes waiting on real stdin
  pts_in,   \* bytes written to the master that the child has not read
  ptm_out,  \* bytes waiting to be read from the master
  cout,     \* bytes waiting in the child's stdout pipe
  cerr,     \* bytes waiting in the child's stderr pipe
  ntyped,   \* payloads typed so far
  nwritten, \* payloads written by the child so far
  io,       \* what has passed the descriptors: accepted (read from real
            \* stdin), written (to the master), from_ptm (read from the master)
  scope     \* the spool scope: the real stdin's terminal attributes now
            \* and when spool was called, the saved mode, the local
            \* `restore`, the pseudo-terminal's descriptors, the SIGWINCH
            \* handler

segvars == <<ts, n_uuid, last, nev, seg, segs, seg_t0>>
loopvars == <<buf_i, buf_p, buf_o, buf_e>>
envvars == <<tty_in, pts_in, ptm_out, cout, cerr, ntyped, nwritten>>
auxvars == <<io, scope>>
spoolvars == <<pc, echo, proc, exc, loopvars, envvars, auxvars>>
vars == <<segvars, now, spoolvars>>

\* Typescript.__init__
NewTypescript(t) ==
  [ buf_i |-> <<>>, buf_ps1 |-> <<>>, buf_o |-> <<>>, buf_e |-> <<>>,
    buf_c |-> <<>>, start_time |-> t,
    handlers |-> [e \in Event |-> <<>>],
    actions |-> <<>> ]

\* ------------------------------------------------------------------------
\* Handlers: byte -> byte transformers registered by the caller
\* ------------------------------------------------------------------------
RECURSIVE Replace(_, _, _)
\* bytes.replace(old, new) for a one-byte old
Replace(s, old, new) ==
  IF s = <<>> THEN <<>>
  ELSE (IF Head(s) = old THEN new ELSE <<Head(s)>>) \o Replace(Tail(s), old, new)

\* cmd.stdin / cmd.stdout / cmd.stderr write to the screen and return b;
\* "lf2crlf", "dropcr" and "veto" stand for caller-supplied transformers.
Handler == {"echo", "lf2crlf", "dropcr", "veto"}

ApplyHandler(h, b) ==
  CASE h = "echo"    -> b
    [] h = "lf2crlf" -> Replace(b, LF, crlf)
    [] h = "dropcr"  -> Replace(b, CR, <<>>)
    [] h = "veto"    -> <<>>

RECURSIVE RunHandlers_NewestFirst(_, _)
\* A chain that runs the handler registered last first.
RunHandlers_NewestFirst(hs, b) ==
  IF hs = <<>> THEN b
  ELSE RunHandlers_NewestFirst(SubSeq(hs, 1, Len(hs) - 1),
                               ApplyHandler(hs[Len(hs)], b))

RECURSIVE RunHandlers(_, _)
\* for handler in handlers: b = handler(b)
RunHandlers(hs, b) ==
  IF hs = <<>> THEN b
  ELSE RunHandlers(Tail(hs), ApplyHandler(Head(hs), b))

\* Typescript.addHandler
addHandler(self, event, handler) ==
  [self EXCEPT !.handlers[event] = Append(@, handler)]

\* ------------------------------------------------------------------------
\* Typescript.wrap
\* ------------------------------------------------------------------------
\* A deque that drops its newest element to make room.
DequeAppend_PopRight(d, x, maxlen) ==
  IF maxlen = 0 THEN <<>>
  ELSE IF Len(d) >= maxlen THEN Append(SubSeq(d, 1, Len(d) - 1), x)
  ELSE Append(d, x)

\* deque(maxlen=histsize).append
DequeAppend(d, x, maxlen) ==
  IF maxlen = 0 THEN <<>>
  ELSE IF Len(d) >= maxlen THEN Append(Tail(d), x)
  ELSE Append(d, x)

\* A boundary test that takes a captured prompt for output.
Boundary_PromptCounts(self) ==
  EndsWith(self.buf_i, <<LF>>) /\ (self.buf_c # <<>> \/ self.buf_ps1 # <<>>)

\* A boundary test that forgets to ask for a finished line.
Boundary_AnyOutput(self) ==
  self.buf_c # <<>>

\* A boundary test that forgets to ask for output.
Boundary_NoOutput(self) ==
  EndsWith(self.buf_i, <<LF>>)

\* if self.buf_i.endswith(b"\n") and self.buf_c
Boundary(self) ==
  EndsWith(self.buf_i, <<LF>>) /\ self.buf_c # <<>>

\* An Action whose typescript is built from buf_o + buf_e instead of buf_c.
MakeAction_OutThenErr(self, t, uid) ==
  [ id |-> uid,
    prompt_ps1 |-> self.buf_ps1,
    command_input |-> self.buf_i,
    command_output |-> self.buf_o,
    command_error |-> self.buf_e,
    typescript |-> self.buf_ps1 \o self.buf_i \o self.buf_o \o self.buf_e,
    time_started |-> self.start_time,
    time_elapsed |-> t - self.start_time ]

\* An Action whose elapsed time is subtracted the wrong way round.
MakeAction_ElapsedReversed(self, t, uid) ==
  [ id |-> uid,
    prompt_ps1 |-> self.buf_ps1,
    command_input |-> self.buf_i,
    command_output |-> self.buf_o,
    command_error |-> self.buf_e,
    typescript |-> self.buf_ps1 \o self.buf_i \o self.buf_c,
    time_started |-> self.start_time,
    time_elapsed |-> self.start_time - t ]

\* actions.Action(...)
MakeAction(self, t, uid) ==
  [ id |-> uid,
    prompt_ps1 |-> self.buf_ps1,
    command_input |-> self.buf_i,
    command_output |-> self.buf_o,
    command_error |-> self.buf_e,
    typescript |-> self.buf_ps1 \o self.buf_i \o self.buf_c,
    time_started |-> self.start_time,
    time_elapsed |-> t - self.start_time ]

\* A boundary that forgets to clear buf_ps1.
Emit_KeepsPrompt(self, t, uid) ==
  [self EXCEPT !.actions = DequeAppend(@, MakeAction(self, t, uid), HistSize),
               !.buf_i = <<>>, !.buf_o = <<>>, !.buf_e = <<>>,
               !.buf_c = <<>>]

\* A boundary that forgets to clear buf_c.
Emit_KeepsCombined(self, t, uid) ==
  [self EXCEPT !.actions = DequeAppend(@, MakeAction(self, t, uid), HistSize),
               !.buf_ps1 = <<>>, !.buf_i = <<>>, !.buf_o = <<>>,
               !.buf_e = <<>>]

\* self.actions.append(action), then the five buffers are cleared
Emit(self, t, uid) ==
  [self EXCEPT !.actions = DequeAppend(@, MakeAction(self, t, uid), HistSize),
               !.buf_ps1 = <<>>, !.buf_i = <<>>, !.buf_o = <<>>,
               !.buf_e = <<>>, !.buf_c = <<>>]

\* if b == self.eof + self.crlf: return b""   (inside the boundary branch)
Consumed(self, b) ==
  Boundary(self) /\ b = eof \o crlf

\* if not self.buf_i and not self.buf_ps1 and not self.buf_c
StartOfTurn(self, t) ==
  IF self.buf_i = <<>> /\ self.buf_ps1 = <<>> /\ self.buf_c = <<>>
  THEN [self EXCEPT !.start_time = t]
  ELSE self

\* the STDIN classification
ClassifyStdin(self, b) ==
  IF self.buf_i = <<>> /\ self.buf_c # <<>> /\ ~EndsWith(self.buf_c, eof)
  THEN [self EXCEPT !.buf_ps1 = @ \o b]
  ELSE [self EXCEPT !.buf_i = @ \o b]

\* case Event.STDOUT
ClassifyStdout(self, b) ==
  IF self.buf_i = <<>> /\ b # eof
  THEN [self EXCEPT !.buf_ps1 = @ \o b]
  ELSE [self EXCEPT !.buf_o = @ \o b, !.buf_c = @ \o b]

\* A STDERR branch that copies the EOF test of the STDOUT branch.
ClassifyStderr_EofTest(self, b) ==
  IF self.buf_i = <<>> /\ b # eof
  THEN [self EXCEPT !.buf_ps1 = @ \o b]
  ELSE [self EXCEPT !.buf_e = @ \o b, !.buf_c = @ \o b]

\* case Event.STDERR
ClassifyStderr(self, b) ==
  IF self.buf_i = <<>>
  THEN [self EXCEPT !.buf_ps1 = @ \o b]
  ELSE [self EXCEPT !.buf_e = @ \o b, !.buf_c = @ \o b]

\* wrap(event, b0) at clock t, with uid the identifier uuid4() would return.
\* The result holds the object after the call, the return value, the bytes
\* as they left the handler chain, and the number of identifiers drawn.
wrap(self, event, b0, t, uid) ==
  LET b == RunHandlers(self.handlers[event], b0) IN
  CASE event = STDIN ->
         LET s1 == IF Boundary(self) THEN Emit(self, t, uid) ELSE self
             nu == IF Boundary(self) THEN 1 ELSE 0
         IN IF Consumed(self, b)
            THEN [self |-> s1, ret |-> <<>>, seen |-> b, uuids |-> nu]
            ELSE [self |-> ClassifyStdin(StartOfTurn(s1, t), b),
                  ret |-> b, seen |-> b, uuids |-> nu]
    [] event = STDOUT ->
         [self |-> ClassifyStdout(self, b), ret |-> b, seen |-> b, uuids |-> 0]
    [] event = STDERR ->
         [self |-> ClassifyStderr(self, b), ret |-> b, seen |-> b, uuids |-> 0]

\* ------------------------------------------------------------------------
\* The segmenter driven by an arbitrary sequence of wrap calls
\* ------------------------------------------------------------------------
\* Payloads of the events: an ordinary byte, a newline, a prompt byte, the
\* EOF byte, and the flush sequence EOF CR LF.
StdinPayload == { <<KEY>>, <<LF>>, eof \o crlf }
StdoutPayload == { <<OUT>>, <<PROMPT>>, eof }
StderrPayload == { <<ERR>>, eof }

NoCall == [event |-> -1, b |-> <<>>, ret |-> <<>>]

\* The bytes of one event, each tagged with the event that delivered it.
Tagged(event, b) == [i \in 1..Len(b) |-> [event |-> event, byte |-> b[i]]]

InitSegmenter ==
  /\ ts = NewTypescript(0)
  /\ now = 0
  /\ n_uuid = 0
  /\ last = NoCall
  /\ nev = 0
  /\ seg = <<>>
  /\ segs = <<>>
  /\ seg_t0 = -1

\* The Typescript, the identifiers drawn and the record of what it observed.
Segmenter ==
  [ts |-> ts, n_uuid |-> n_uuid, last |-> last, nev |-> nev,
   seg |-> seg, segs |-> segs, seg_t0 |-> seg_t0]

\* One call of wrap at clock t by whoever holds the Typescript.
CallF(s, event, b, t) ==
  LET r == wrap(s.ts, event, b, t, s.n_uuid + 1) IN
    [ts |-> r.self,
     n_uuid |-> s.n_uuid + r.uuids,
     last |-> [event |-> event, b |-> b, ret |-> r.ret],
     nev |-> s.nev + 1,
     seg |-> IF r.uuids > 0 THEN Tagged(event, r.seen)
             ELSE s.seg \o Tagged(event, r.seen),
     segs |-> IF r.uuids > 0 THEN Append(s.segs, s.seg) ELSE s.segs,
     seg_t0 |-> IF r.self.buf_ps1 \o r.self.buf_i = <<>> THEN -1
                ELSE IF r.uuids > 0 \/ s.ts.buf_ps1 \o s.ts.buf_i = <<>> THEN t
                ELSE s.seg_t0]

SetSegmenter(s) ==
  /\ ts' = s.ts
  /\ n_uuid' = s.n_uuid
  /\ last' = s.last
  /\ nev' = s.nev
  /\ seg' = s.seg
  /\ segs' = s.segs
  /\ seg_t0' = s.seg_t0

Call(event, b) == SetSegmenter(CallF(Segmenter, event, b, now))

\* Nothing has passed the descriptors, the child holds the write ends of its
\* two pipes, and no read of a pipe has returned b"".
NoIO ==
  [accepted |-> <<>>, written |-> <<>>, from_ptm |-> <<>>,
   closed_o |-> FALSE, closed_e |-> FALSE,
   empty_o |-> FALSE, empty_e |-> FALSE]

\* The terminal as spool finds it: `restore` is not bound, no pseudo-terminal
\* is open, SIGWINCH has the handler of the caller, no audit event has been
\* raised, no signal sent to a child, no step of the teardown taken and no
\* call on the master has failed with EAGAIN. The call is one whose command
\* resolves, with bufsize 1 and stdin a terminal.
Outside(attr) ==
  [entry_attr |-> attr, stdin_attr |-> attr, mode |-> "none",
   restore |-> "unbound", fds |-> "none", sigwinch |-> "caller",
   which |-> TRUE, bufsize |-> 1, isatty |-> TRUE,
   audit |-> 0, signals |-> <<>>, teardown |-> <<>>, eagain |-> "none"]

NoScope == Outside("cooked")

\* No spool is running: the Typescript is driven directly.
NoSpool ==
  /\ pc = "idle"
  /\ echo = FALSE
  /\ proc = "none"
  /\ exc = [raised |-> "none", caught |-> "none"]
  /\ buf_i = <<>> /\ buf_p = <<>> /\ buf_o = <<>> /\ buf_e = <<>>
  /\ tty_in = <<>> /\ pts_in = <<>> /\ ptm_out = <<>>
  /\ cout = <<>> /\ cerr = <<>>
  /\ ntyped = 0 /\ nwritten = 0
  /\ io = NoIO
  /\ scope = NoScope

Init == InitSegmenter /\ NoSpool

WrapStdin ==
  /\ nev < MaxEvents
  /\ \E b \in StdinPayload : Call(STDIN, b)
  /\ UNCHANGED <<now, spoolvars>>

WrapStdout ==
  /\ nev < MaxEvents
  /\ \E b \in StdoutPayload : Call(STDOUT, b)
  /\ UNCHANGED <<now, spoolvars>>

WrapStderr ==
  /\ nev < MaxEvents
  /\ \E b \in StderrPayload : Call(STDERR, b)
  /\ UNCHANGED <<now, spoolvars>>

Next ==
  \/ WrapStdin
  \/ WrapStdout
  \/ WrapStderr

Spec == Init /\ [][Next]_vars

\* ------------------------------------------------------------------------
\* The history under a long run of commands
\* ------------------------------------------------------------------------
HistStdin ==
  /\ nev < MaxHistEvents
  /\ \E b \in { <<KEY>>, <<LF>> } : Call(STDIN, b)
  /\ UNCHANGED <<now, spoolvars>>

HistStdout ==
  /\ nev < MaxHistEvents
  /\ Call(STDOUT, <<OUT>>)
  /\ UNCHANGED <<now, spoolvars>>

HistStderr ==
  /\ nev < MaxHistEvents
  /\ Call(STDERR, <<ERR>>)
  /\ UNCHANGED <<now, spoolvars>>

NextHist ==
  \/ HistStdin
  \/ HistStdout
  \/ HistStderr

SpecHist == Init /\ [][NextHist]_vars

\* ------------------------------------------------------------------------
\* The segmenter with handlers registered by the caller
\* ------------------------------------------------------------------------
\* Payloads that the transformers change: a line end, and the flush sequence.
HandlerStdinPayload == { crlf, eof \o crlf }
HandlerStdoutPayload == { <<OUT, LF>> }
HandlerStderrPayload == { <<ERR, CR>> }

\* The number of handlers registered, all event kinds together.
NumHandlers(self) ==
  Len(self.handlers[STDIN]) + Len(self.handlers[STDOUT])
    + Len(self.handlers[STDERR])

\* ts.addHandler(event, handler)
AddHandler ==
  /\ NumHandlers(ts) < MaxHandlers
  /\ \E e \in Event, h \in Handler : ts' = addHandler(ts, e, h)
  /\ UNCHANGED <<n_uuid, last, nev, seg, segs, seg_t0, now, spoolvars>>

HandledStdin ==
  /\ nev < MaxHandlerEvents
  /\ \E b \in HandlerStdinPayload : Call(STDIN, b)
  /\ UNCHANGED <<now, spoolvars>>

HandledStdout ==
  /\ nev < MaxHandlerEvents
  /\ \E b \in HandlerStdoutPayload : Call(STDOUT, b)
  /\ UNCHANGED <<now, spoolvars>>

HandledStderr ==
  /\ nev < MaxHandlerEvents
  /\ \E b \in HandlerStderrPayload : Call(STDERR, b)
  /\ UNCHANGED <<now, spoolvars>>

NextHandlers ==
  \/ AddHandler
  \/ HandledStdin
  \/ HandledStdout
  \/ HandledStderr

SpecHandlers == Init /\ [][NextHandlers]_vars

\* ------------------------------------------------------------------------
\* The segmenter under a moving clock
\* ------------------------------------------------------------------------
\* datetime.utcnow() returns a later reading.
Tick ==
  /\ now < MaxClock
  /\ now' = now + 1
  /\ UNCHANGED <<segvars, spoolvars>>

TimedStdin ==
  /\ nev < MaxClockEvents
  /\ \E b \in { <<KEY>>, <<LF>> } : Call(STDIN, b)
  /\ UNCHANGED <<now, spoolvars>>

TimedStdout ==
  /\ nev < MaxClockEvents
  /\ Call(STDOUT, <<OUT>>)
  /\ UNCHANGED <<now, spoolvars>>

TimedStderr ==
  /\ nev < MaxClockEvents
  /\ Call(STDERR, <<ERR>>)
  /\ UNCHANGED <<now, spoolvars>>

NextClock ==
  \/ Tick
  \/ TimedStdin
  \/ TimedStdout
  \/ TimedStderr

SpecClock == Init /\ [][NextClock]_vars

\* ------------------------------------------------------------------------
\* PseudoTerminal.spool: the I/O loop, the flush and the teardown
\* ------------------------------------------------------------------------
\* What the user types (a key and Enter, Ctrl-J, a pasted Ctrl-D with a line
\* end) and what the child writes (a line to stdout, a byte to stderr).
TypedPayload == { <<KEY, CR>>, <<LF>>, eof \o crlf }
ChildStdoutPayload == { <<OUT, LF>> }
ChildStderrPayload == { <<ERR>> }

RECURSIVE TtyEcho(_)
\* What the slave's line discipline sends back to the master for the input w
\* once _set_echo has set ECHO (with the ICRNL and ONLCR of a new terminal):
\* CR and LF come back as CR LF, the EOF character is not echoed.
TtyEcho(w) ==
  IF w = <<>> THEN <<>>
  ELSE (CASE Head(w) \in {CR, LF} -> crlf
          [] Head(w) = CEOF -> <<>>
          [] OTHER -> <<Head(w)>>) \o TtyEcho(Tail(w))

\* The loop's locals, the Typescript and the descriptors' pending bytes.
Machine ==
  [s |-> Segmenter,
   buf_i |-> buf_i, buf_p |-> buf_p, buf_o |-> buf_o, buf_e |-> buf_e,
   tty_in |-> tty_in, pts_in |-> pts_in, ptm_out |-> ptm_out,
   cout |-> cout, cerr |-> cerr, io |-> io]

SetMachine(m) ==
  /\ SetSegmenter(m.s)
  /\ buf_i' = m.buf_i /\ buf_p' = m.buf_p
  /\ buf_o' = m.buf_o /\ buf_e' = m.buf_e
  /\ tty_in' = m.tty_in /\ pts_in' = m.pts_in /\ ptm_out' = m.ptm_out
  /\ cout' = m.cout /\ cerr' = m.cerr
  /\ io' = m.io

\* A read set that still takes real stdin with buf_i at the water level.
InRfdsStdin_AtWaterLevel(m) == Len(m.buf_i) <= WaterLevel

\* A read set that takes the master whatever buf_p holds.
InRfdsPtm_NoGate(m) == TRUE

\* rfds and wfds as the loop builds them, and what select reports ready.
\* The child's pipes are always in rfds.
InRfdsStdin(m) == Len(m.buf_i) < WaterLevel
InRfdsPtm(m) == Len(m.buf_p) < WaterLevel
InRfdsStdout(m) == TRUE
InRfdsStderr(m) == TRUE
InWfdsPtm(m) == Len(m.buf_i) > 0
ReadyStdin(m) == InRfdsStdin(m) /\ m.tty_in # <<>>
ReadyPtm(m) == InRfdsPtm(m) /\ m.ptm_out # <<>>
\* A pipe is ready when it holds bytes, and when its write end is closed.
ReadyStdout(m) == InRfdsStdout(m) /\ (m.cout # <<>> \/ m.io.closed_o)
ReadyStderr(m) == InRfdsStderr(m) /\ (m.cerr # <<>> \/ m.io.closed_e)
WritablePtm(m) == InWfdsPtm(m) /\ Len(m.pts_in) < PtyCap

\* A read of real stdin that calls wrap whatever the echo mode.
ReadStdin_AlwaysWrap(m) ==
  LET data == Take(m.tty_in, ReadSize)
      s1 == CallF(m.s, STDIN, data, now)
  IN [m EXCEPT !.tty_in = Drop(@, Len(data)), !.s = s1,
               !.buf_i = @ \o s1.last.ret,
               !.io.accepted = @ \o data]

\* if stdin_fd in rfds: read, wrap(STDIN) unless echo, buf_i += data
ReadStdin(m) ==
  LET data == Take(m.tty_in, ReadSize)
      s1 == IF echo THEN m.s ELSE CallF(m.s, STDIN, data, now)
      d == IF echo THEN data ELSE s1.last.ret
  IN [m EXCEPT !.tty_in = Drop(@, Len(data)), !.s = s1, !.buf_i = @ \o d,
               !.io.accepted = @ \o data]

\* if ptm in rfds: read, wrap(STDIN) if echo, buf_p += data
ReadPtm(m) ==
  LET data == Take(m.ptm_out, ReadSize)
      s1 == IF echo THEN CallF(m.s, STDIN, data, now) ELSE m.s
      d == IF echo THEN s1.last.ret ELSE data
  IN [m EXCEPT !.ptm_out = Drop(@, Len(data)), !.s = s1, !.buf_p = @ \o d,
               !.io.from_ptm = @ \o data]

\* if stdout_fd in rfds: read; if data: wrap(STDOUT), buf_o += data
\* A read that returns b"" (the write end is closed) changes nothing.
ReadStdout(m) ==
  LET data == Take(m.cout, ReadSize)
      s1 == CallF(m.s, STDOUT, data, now)
  IN IF data = <<>> THEN [m EXCEPT !.io.empty_o = TRUE]
     ELSE [m EXCEPT !.cout = Drop(@, Len(data)), !.s = s1,
                    !.buf_o = @ \o s1.last.ret]

\* if stderr_fd in rfds: read; if data: wrap(STDERR), buf_e += data
ReadStderr(m) ==
  LET data == Take(m.cerr, ReadSize)
      s1 == CallF(m.s, STDERR, data, now)
  IN IF data = <<>> THEN [m EXCEPT !.io.empty_e = TRUE]
     ELSE [m EXCEPT !.cerr = Drop(@, Len(data)), !.s = s1,
                    !.buf_e = @ \o s1.last.ret]

\* if ptm in wfds: n = os.write(ptm, buf_i); buf_i = buf_i[n:]
\* The master takes what the pseudo-terminal has room for; the slave echoes
\* it when echo is set.
WritePtm(m) ==
  LET n == Min(Len(m.buf_i), PtyCap - Len(m.pts_in))
      w == Take(m.buf_i, n)
  IN [m EXCEPT !.buf_i = Drop(@, n),
               !.pts_in = @ \o w,
               !.ptm_out = IF echo THEN @ \o TtyEcho(w) ELSE @,
               !.io.written = @ \o w]

\* The steps of an iteration, in the order of the loop body. Each acts on m,
\* what the steps before it left, if select reported its descriptor for m0,
\* the state at the top of the iteration.
StepStdin(m0, m) == IF ReadyStdin(m0) THEN ReadStdin(m) ELSE m
StepPtm(m0, m) == IF ReadyPtm(m0) THEN ReadPtm(m) ELSE m
StepStdout(m0, m) == IF ReadyStdout(m0) THEN ReadStdout(m) ELSE m
StepStderr(m0, m) == IF ReadyStderr(m0) THEN ReadStderr(m) ELSE m
StepWrite(m0, m) == IF WritablePtm(m0) THEN WritePtm(m) ELSE m

\* One iteration of `while proc.poll() is None`: select, then the reads in
\* the order stdin, ptm, stdout, stderr, then the write.
Iteration(m0) ==
  StepWrite(m0, StepStderr(m0, StepStdout(m0, StepPtm(m0, StepStdin(m0, m0)))))

\* An iteration cut short by `except OSError: break` at the read of the
\* child's stdout, and one cut short at the read of its stderr, once stdout
\* has been read.
BreakAtStdout(m0) == StepPtm(m0, StepStdin(m0, m0))
BreakAtStderr(m0) == StepStdout(m0, StepPtm(m0, StepStdin(m0, m0)))

NoException == [raised |-> "none", caught |-> "none"]

\* The scope once tty.setraw has succeeded on a terminal found cooked.
InRawMode ==
  [Outside("cooked") EXCEPT !.stdin_attr = "raw", !.mode = "cooked",
                            !.restore = "yes", !.fds = "open",
                            !.sigwinch = "pasta", !.audit = 1]

\* The loop is entered: the child runs, the Typescript is the one yielded.
InitSpool ==
  /\ InitSegmenter
  /\ pc = "loop"
  /\ echo \in BOOLEAN
  /\ proc = "running"
  /\ exc = NoException
  /\ buf_i = <<>> /\ buf_p = <<>> /\ buf_o = <<>> /\ buf_e = <<>>
  /\ tty_in = <<>> /\ pts_in = <<>> /\ ptm_out = <<>>
  /\ cout = <<>> /\ cerr = <<>>
  /\ ntyped = 0 /\ nwritten = 0
  /\ io = NoIO
  /\ scope = InRawMode

LoopIter ==
  /\ pc = "loop"
  /\ proc = "running"
  /\ \/ ReadyStdin(Machine) \/ ReadyPtm(Machine) \/ ReadyStdout(Machine)
     \/ ReadyStderr(Machine) \/ WritablePtm(Machine)
  /\ SetMachine(Iteration(Machine))
  /\ UNCHANGED <<now, pc, echo, proc, exc, ntyped, nwritten, scope>>

\* `while proc.poll() is None` finds the child gone.
LoopExit ==
  /\ pc = "loop"
  /\ proc # "running"
  /\ pc' = "flush"
  /\ UNCHANGED <<segvars, now, echo, proc, exc, loopvars, envvars, auxvars>>

\* os.read of one of the child's pipes raises OSError: the loop is left by
\* `break`, the rest of the iteration is skipped.
LoopBreak ==
  /\ pc = "loop"
  /\ proc = "running"
  /\ \/ ReadyStdout(Machine) /\ SetMachine(BreakAtStdout(Machine))
     \/ ReadyStderr(Machine) /\ SetMachine(BreakAtStderr(Machine))
  /\ pc' = "flush"
  /\ UNCHANGED <<now, echo, proc, exc, ntyped, nwritten, scope>>

\* An exception surfaces in the loop body (KeyboardInterrupt, or an OSError
\* of a read or write on the real terminal or the master).
LoopRaise ==
  /\ pc = "loop"
  /\ exc' = [exc EXCEPT !.raised = "OSError"]
  /\ pc' = "except"
  /\ UNCHANGED <<segvars, now, echo, proc, loopvars, envvars, auxvars>>

\* What an iteration has done when os.read(ptm, readsize) raises, and when
\* os.write(ptm, buf_i) raises.
RaiseAtRead(m0) == StepStdin(m0, m0)
RaiseAtWrite(m0) ==
  StepStderr(m0, StepStdout(m0, StepPtm(m0, StepStdin(m0, m0))))

\* The master is non-blocking (os.set_blocking(ptm, False)): a read or a
\* write of it that cannot proceed raises BlockingIOError, errno EAGAIN. No
\* statement of the loop catches it: it leaves the loop for the except
\* clause like any other exception.
LoopEagain ==
  /\ pc = "loop"
  /\ proc = "running"
  /\ \/ /\ InRfdsPtm(Machine)
        /\ SetMachine(RaiseAtRead(Machine))
        /\ scope' = [scope EXCEPT !.eagain = "read"]
     \/ /\ InWfdsPtm(Machine)
        /\ SetMachine(RaiseAtWrite(Machine))
        /\ scope' = [scope EXCEPT !.eagain = "write"]
  /\ exc' = [exc EXCEPT !.raised = "BlockingIOError"]
  /\ pc' = "except"
  /\ UNCHANGED <<now, echo, proc, ntyped, nwritten>>

\* The parameters of Typescript.wrap.
WrapParams == {"self", "event", "b"}

\* ts.wrap(shell.Event.STDOUT, ts.eof, flush=True)
\* ts.wrap(shell.Event.STDIN, ts.eof + ts.crlf)
\* wrap takes no parameter named flush: binding the first call raises
\* TypeError before the body of wrap runs, and the second call is not made.
Flush ==
  /\ pc = "flush"
  /\ IF "flush" \in WrapParams
     THEN /\ SetSegmenter(CallF(CallF(Segmenter, STDOUT, eof, now),
                                STDIN, eof \o crlf, now))
          /\ pc' = "finally"
          /\ UNCHANGED exc
     ELSE /\ UNCHANGED segvars
          /\ exc' = [exc EXCEPT !.raised = "TypeError"]
          /\ pc' = "except"
  /\ UNCHANGED <<now, echo, proc, loopvars, envvars, auxvars>>

\* except BaseException: if proc is not None: proc.kill()
\* The exception is caught and not raised again. Popen.kill sends SIGKILL
\* unless the child is known to have exited.
Except ==
  /\ pc = "except"
  /\ proc' = (IF proc = "running" THEN "killed" ELSE proc)
  /\ scope' = (IF proc = "running"
               THEN [scope EXCEPT !.signals = Append(@, "SIGKILL")]
               ELSE scope)
  /\ exc' = [raised |-> "none", caught |-> exc.raised]
  /\ pc' = "finally"
  /\ UNCHANGED <<segvars, now, echo, loopvars, envvars, io>>

\* A teardown that leaves the terminal as it is.
RestoreStdin_Skip(sc) == sc

\* if restore: termios.tcsetattr(stdin_fd, termios.TCSAFLUSH, mode)
RestoreStdin(sc) ==
  IF sc.restore = "yes"
  THEN [sc EXCEPT !.stdin_attr = sc.mode, !.teardown = Append(@, "stdin")]
  ELSE sc

\* try: retcode = proc.wait(timeout=timeout)
\* except subprocess.TimeoutExpired: retcode = proc.poll()
\* A child that has exited or was killed is reaped. One still running either
\* exits within the timeout or is left running: nothing is sent to it here.
WaitChild(p) == IF p = "running" THEN {"running", "exited"} ELSE {p}

\* if proc is not None: the wait above is a step of the teardown
Waited(sc, p) ==
  IF p = "none" THEN sc ELSE [sc EXCEPT !.teardown = Append(@, "child")]

\* os.close(pts); os.close(ptm)
CloseFds(sc) ==
  [sc EXCEPT !.fds = "closed", !.teardown = @ \o <<"pts", "ptm">>]

\* finally: proc.wait(timeout), restore the real stdin, close pts and ptm.
\* `if restore` with restore never bound raises UnboundLocalError, and the
\* descriptors stay open. Nothing is done about the SIGWINCH handler.
Finally ==
  /\ pc = "finally"
  /\ pc' = "done"
  /\ \E p \in WaitChild(proc) : proc' = p
  /\ IF scope.restore = "unbound"
     THEN /\ exc' = [exc EXCEPT !.raised = "UnboundLocalError"]
          /\ scope' = Waited(scope, proc)
     ELSE /\ scope' = CloseFds(RestoreStdin(Waited(scope, proc)))
          /\ UNCHANGED exc
  /\ UNCHANGED <<segvars, now, echo, loopvars, envvars, io>>

\* The user types.
UserType ==
  /\ pc = "loop"
  /\ ntyped < MaxTyped
  /\ \E b \in TypedPayload : tty_in' = tty_in \o b
  /\ ntyped' = ntyped + 1
  /\ UNCHANGED <<segvars, now, pc, echo, proc, exc, loopvars,
                 pts_in, ptm_out, cout, cerr, nwritten, auxvars>>

\* The child reads its standard input, the slave.
ChildRead ==
  /\ pc = "loop"
  /\ proc = "running"
  /\ pts_in # <<>>
  /\ pts_in' = <<>>
  /\ UNCHANGED <<segvars, now, pc, echo, proc, exc, loopvars,
                 tty_in, ptm_out, cout, cerr, ntyped, nwritten, auxvars>>

\* The child writes to its standard output.
ChildStdout ==
  /\ pc = "loop"
  /\ proc = "running"
  /\ nwritten < MaxWritten
  /\ \E b \in ChildStdoutPayload : cout' = cout \o b
  /\ nwritten' = nwritten + 1
  /\ UNCHANGED <<segvars, now, pc, echo, proc, exc, loopvars,
                 tty_in, pts_in, ptm_out, cerr, ntyped, auxvars>>

\* The child writes to its standard error.
ChildStderr ==
  /\ pc = "loop"
  /\ proc = "running"
  /\ nwritten < MaxWritten
  /\ \E b \in ChildStderrPayload : cerr' = cerr \o b
  /\ nwritten' = nwritten + 1
  /\ UNCHANGED <<segvars, now, pc, echo, proc, exc, loopvars,
                 tty_in, pts_in, ptm_out, cout, ntyped, auxvars>>

\* The child closes its standard output, or its standard error, and runs on.
ChildClose ==
  /\ pc = "loop"
  /\ proc = "running"
  /\ \/ ~io.closed_o /\ io' = [io EXCEPT !.closed_o = TRUE]
     \/ ~io.closed_e /\ io' = [io EXCEPT !.closed_e = TRUE]
  /\ UNCHANGED <<segvars, now, pc, echo, proc, exc, loopvars, envvars, scope>>

\* The child terminates.
ChildExit ==
  /\ pc = "loop"
  /\ proc = "running"
  /\ proc' = "exited"
  /\ UNCHANGED <<segvars, now, pc, echo, exc, loopvars, envvars, auxvars>>

NextSpool ==
  \/ LoopIter
  \/ LoopExit
  \/ LoopBreak
  \/ LoopRaise
  \/ Flush
  \/ Except
  \/ Finally
  \/ UserType
  \/ ChildRead
  \/ ChildStdout
  \/ ChildStderr
  \/ ChildExit

SpecSpool == InitSpool /\ [][NextSpool]_vars

\* ------------------------------------------------------------------------
\* The whole scope of spool, from the call to the end of the teardown
\* ------------------------------------------------------------------------
\* The attributes the real stdin may have when spool is called, and the
\* values of bufsize on either side of the test `bufsize < 1`.
TerminalAttr == {"cooked", "cbreak"}
BufSize == {0, 1}

InitScope ==
  /\ InitSegmenter
  /\ pc = "entry"
  /\ echo \in BOOLEAN
  /\ proc = "none"
  /\ exc = NoException
  /\ buf_i = <<>> /\ buf_p = <<>> /\ buf_o = <<>> /\ buf_e = <<>>
  /\ tty_in = <<>> /\ pts_in = <<>> /\ ptm_out = <<>>
  /\ cout = <<>> /\ cerr = <<>>
  /\ ntyped = 0 /\ nwritten = 0
  /\ io = NoIO
  /\ \E a \in TerminalAttr, w \in BOOLEAN, n \in BufSize, t \in BOOLEAN :
       scope = [Outside(a) EXCEPT !.which = w, !.bufsize = n, !.isatty = t]

\* A precondition test that leaves out os.isatty.
Preconditions_NoTtyTest(sc) == sc.which /\ sc.bufsize >= 1

\* if exe := shutil.which(args[0]) ... else: raise
\* if bufsize < 1: raise
\* if not os.isatty(stdin_fd): raise
Preconditions(sc) == sc.which /\ sc.bufsize >= 1 /\ sc.isatty

\* The checks before anything is opened; a failed check raises PastaError out
\* of spool. Once they have passed: sys.audit("pasta.pty", ...).
Validate ==
  /\ pc = "entry"
  /\ IF Preconditions(scope)
     THEN /\ pc' = "setup"
          /\ scope' = [scope EXCEPT !.audit = @ + 1]
          /\ UNCHANGED exc
     ELSE /\ pc' = "done"
          /\ exc' = [exc EXCEPT !.raised = "PastaError"]
          /\ UNCHANGED scope
  /\ UNCHANGED <<segvars, now, echo, proc, loopvars, envvars, io>>

\* pty.openpty(); mode = termios.tcgetattr(stdin_fd); the slave is put in
\* the echo mode asked for if it is not in it already, and only then is
\* `restore` bound. An error of _set_echo other than EINVAL or ENOTTY is
\* raised out of spool.
Setup ==
  /\ pc = "setup"
  /\ \E r \in {"unbound", "yes", "no", "raise"} :
       /\ scope' = [scope EXCEPT !.fds = "open", !.mode = scope.stdin_attr,
                                 !.restore = IF r = "raise" THEN "no" ELSE r]
       /\ IF r = "raise"
          THEN pc' = "done" /\ exc' = [exc EXCEPT !.raised = "OSError"]
          ELSE pc' = "try" /\ UNCHANGED exc
  /\ UNCHANGED <<segvars, now, echo, proc, loopvars, envvars, io>>

\* The try block up to the yield: the child is started, the SIGWINCH handler
\* is registered and the Typescript is constructed; or subprocess.Popen
\* raises; or a statement after it raises with the child running, before or
\* after signal.signal has replaced the handler.
Spawn ==
  /\ pc = "try"
  /\ \/ /\ proc' = "running"
        /\ scope' = [scope EXCEPT !.sigwinch = "pasta"]
        /\ pc' = "yield"
        /\ UNCHANGED exc
     \/ /\ exc' = [exc EXCEPT !.raised = "OSError"]
        /\ pc' = "except"
        /\ UNCHANGED <<proc, scope>>
     \/ /\ proc' = "running"
        /\ exc' = [exc EXCEPT !.raised = "TypeError"]
        /\ pc' = "except"
        /\ \E h \in {"caller", "pasta"} :
             scope' = [scope EXCEPT !.sigwinch = h]
  /\ UNCHANGED <<segvars, now, echo, loopvars, envvars, io>>

\* A yield placed after tty.setraw: the caller's block runs in raw mode.
Block_InRawMode ==
  /\ pc = "yield"
  /\ scope' = [scope EXCEPT !.stdin_attr = "raw", !.restore = "yes"]
  /\ \/ pc' = "loop" /\ UNCHANGED exc
     \/ pc' = "except" /\ exc' = [exc EXCEPT !.raised = "Exception"]
  /\ UNCHANGED <<segvars, now, echo, proc, loopvars, envvars, io>>

\* yield ts: the caller's block runs; it ends, or the exception it raises is
\* thrown into spool at the yield.
Block ==
  /\ pc = "yield"
  /\ \/ pc' = "setraw" /\ UNCHANGED exc
     \/ pc' = "except" /\ exc' = [exc EXCEPT !.raised = "Exception"]
  /\ UNCHANGED <<segvars, now, echo, proc, loopvars, envvars, auxvars>>

\* try: tty.setraw(stdin_fd); restore = True
\* except termios.error: restore = False
SetRaw ==
  /\ pc = "setraw"
  /\ \/ scope' = [scope EXCEPT !.stdin_attr = "raw", !.restore = "yes"]
     \/ scope' = [scope EXCEPT !.restore = "no"]
  /\ pc' = "loop"
  /\ UNCHANGED <<segvars, now, echo, proc, exc, loopvars, envvars, io>>

\* A short session: two payloads typed, one written by the child.
ScopeType == ntyped < 2 /\ UserType
ScopeOutput == nwritten = 0 /\ ChildStdout

NextScope ==
  \/ Validate
  \/ Setup
  \/ Spawn
  \/ Block
  \/ SetRaw
  \/ ScopeType
  \/ ScopeOutput
  \/ ChildRead
  \/ ChildClose
  \/ ChildExit
  \/ LoopIter
  \/ LoopExit
  \/ LoopBreak
  \/ LoopRaise
  \/ LoopEagain
  \/ Flush
  \/ Except
  \/ Finally

SpecScope == InitScope /\ [][NextScope]_vars

\* ------------------------------------------------------------------------
\* Vocabulary of the properties
\* ------------------------------------------------------------------------
HasPrefix(s, p) == Len(s) >= Len(p) /\ SubSeq(s, 1, Len(p)) = p

\* The bytes of a tagged sequence.
Bytes(sg) == [i \in 1..Len(sg) |-> sg[i].byte]

IsChild(x) == x.event # STDIN
IsStdout(x) == x.event = STDOUT

RECURSIVE Flatten(_)
Flatten(ss) == IF ss = <<>> THEN <<>> ELSE Head(ss) \o Flatten(Tail(ss))

\* Everything wrap has observed, in observation order.
Observed == Flatten(segs) \o seg

\* The history is still the list of all Actions emitted.
NothingEvicted == Len(ts.actions) = n_uuid

\* The typescripts of the history, concatenated.
Typescripts == Flatten([i \in 1..Len(ts.actions) |-> ts.actions[i].typescript])

RECURSIVE Merged(_, _, _, _)
\* m is a merge of co (the STDOUT bytes) and ce (the STDERR bytes) that
\* follows the order of t, the tagged child bytes as they were observed: m is
\* t with some elements left out, its STDOUT elements are co and its STDERR
\* elements are ce.
Merged(m, co, ce, t) ==
  IF m = <<>> THEN co = <<>> /\ ce = <<>>
  ELSE /\ t # <<>>
       /\ \/ Merged(m, co, ce, Tail(t))
          \/ /\ Head(t).byte = Head(m)
             /\ IF Head(t).event = STDOUT
                THEN /\ co # <<>>
                     /\ Head(co) = Head(m)
                     /\ Merged(Tail(m), Tail(co), ce, Tail(t))
                ELSE /\ ce # <<>>
                     /\ Head(ce) = Head(m)
                     /\ Merged(Tail(m), co, Tail(ce), Tail(t))

RECURSIVE TrailingPrompt(_)
\* The prompt bytes the child printed last: the longest suffix of a tagged
\* sequence made of PROMPT bytes of STDOUT.
TrailingPrompt(sg) ==
  IF sg = <<>> THEN <<>>
  ELSE LET x == sg[Len(sg)] IN
       IF x.event = STDOUT /\ x.byte = PROMPT
       THEN Append(TrailingPrompt(SubSeq(sg, 1, Len(sg) - 1)), x)
       ELSE <<>>

\* The last step was a call of wrap.
Called == nev' = nev + 1

\* The observation ends with the flush: wrap(STDOUT, EOF), wrap(STDIN, EOF CR LF).
FlushTags == Tagged(STDOUT, eof) \o Tagged(STDIN, eof \o crlf)
SessionEnded ==
  /\ Len(Observed) >= Len(FlushTags)
  /\ Drop(Observed, Len(Observed) - Len(FlushTags)) = FlushTags

\* ------------------------------------------------------------------------
\* C1
\* ------------------------------------------------------------------------
\* C1: every Action of the history has typescript = prompt_ps1 ++
\* command_input ++ M, where M is a merge of the Action's command_output and
\* command_error in the order their STDOUT and STDERR events were observed.
C1_Reconstitution ==
  \A i \in 1..Len(ts.actions) :
    LET a == ts.actions[i]
        pre == a.prompt_ps1 \o a.command_input
    IN /\ HasPrefix(a.typescript, pre)
       /\ Merged(Drop(a.typescript, Len(pre)), a.command_output,
                 a.command_error, SelectSeq(segs[a.id], IsChild))

\* An Action with a prompt, whose error bytes were observed before its output.
C1_Witness ==
  \E i \in 1..Len(ts.actions) :
    LET a == ts.actions[i] IN
      /\ a.prompt_ps1 # <<>>
      /\ a.command_output = <<OUT>>
      /\ a.command_error = <<ERR>>
      /\ a.typescript = a.prompt_ps1 \o a.command_input \o <<ERR, OUT>>

\* ------------------------------------------------------------------------
\* C2
\* ------------------------------------------------------------------------
\* C2: wrap(STDIN, b) appends an Action if and only if, at entry, buf_i ends
\* with a newline and buf_c is non-empty; the Action carries the buffers as
\* they were at entry, and b is classified with all five buffers empty.
\* wrap(STDOUT, _) and wrap(STDERR, _) append no Action.
C2_Emission ==
  [][Called =>
      IF last'.event = STDIN
      THEN LET cond == EndsWith(ts.buf_i, <<LF>>) /\ ts.buf_c # <<>> IN
           /\ (ts'.actions # ts.actions) <=> cond
           /\ (n_uuid' = n_uuid + 1) <=> cond
           /\ cond =>
                /\ ts'.actions # <<>>
                /\ LET a == ts'.actions[Len(ts'.actions)] IN
                     /\ a.prompt_ps1 = ts.buf_ps1
                     /\ a.command_input = ts.buf_i
                     /\ a.command_output = ts.buf_o
                     /\ a.command_error = ts.buf_e
                /\ ts'.buf_ps1 \o ts'.buf_i = last'.ret
                /\ ts'.buf_o = <<>>
                /\ ts'.buf_e = <<>>
                /\ ts'.buf_c = <<>>
      ELSE ts'.actions = ts.actions /\ n_uuid' = n_uuid]_vars

\* The state right after a wrap(STDIN, b) that appended an Action: only b has
\* been observed since.
C2_Witness ==
  /\ last.event = STDIN
  /\ n_uuid >= 1
  /\ ts.actions # <<>>
  /\ ts.actions[Len(ts.actions)].id = n_uuid
  /\ seg = Tagged(STDIN, last.b)
  /\ ts.buf_i = <<KEY>>

\* ------------------------------------------------------------------------
\* C4
\* ------------------------------------------------------------------------
\* C4: the prompt bytes the child prints after a command's output and before
\* the first input byte of the next command are the prompt_ps1 of the next
\* Action.
C4_Claim ==
  \A i \in 1..Len(ts.actions) :
    LET a == ts.actions[i] IN
      a.id >= 2 => a.prompt_ps1 = Bytes(TrailingPrompt(segs[a.id - 1]))

\* ------------------------------------------------------------------------
\* C5
\* ------------------------------------------------------------------------
\* C5: the typescripts of the emitted Actions, concatenated in history order,
\* are the byte stream wrap observed: a prefix of it while the session runs,
\* and all of it (with or without the bytes of the flush) once it has ended.
C5_Claim ==
  NothingEvicted =>
    /\ HasPrefix(Bytes(Observed), Typescripts)
    /\ SessionEnded =>
         \E k \in {0, Len(eof \o crlf), Len(FlushTags)} :
           Typescripts = SubSeq(Bytes(Observed), 1, Len(Observed) - k)

\* ------------------------------------------------------------------------
\* C8
\* ------------------------------------------------------------------------
\* C8: the history holds the last min(n, histsize) of the n Actions emitted,
\* in emission order.
C8_History ==
  /\ Len(ts.actions) = Min(n_uuid, HistSize)
  /\ \A i \in 1..Len(ts.actions) :
       ts.actions[i].id = n_uuid - Len(ts.actions) + i

\* A full history of at least two Actions that has evicted one.
C8_Witness ==
  /\ n_uuid > HistSize
  /\ Len(ts.actions) = HistSize
  /\ Len(ts.actions) >= 2

\* ------------------------------------------------------------------------
\* C9
\* ------------------------------------------------------------------------
\* C9: wrap(STDIN, EOF CR LF) returns the empty byte string and appends the
\* bytes to no buffer, whether or not the call found an Action boundary.
C9_Claim ==
  (last.event = STDIN /\ last.b = eof \o crlf) =>
    /\ last.ret = <<>>
    /\ ~EndsWith(ts.buf_i, eof \o crlf)
    /\ ~EndsWith(ts.buf_ps1, eof \o crlf)

\* ------------------------------------------------------------------------
\* C10
\* ------------------------------------------------------------------------
\* C10: wrap(STDOUT, b) appends b to buf_ps1 alone when buf_i is empty and b
\* is not the EOF byte, and to buf_o and buf_c otherwise; wrap(STDERR, b)
\* appends b to buf_ps1 alone when buf_i is empty, and to buf_e and buf_c
\* otherwise. Nothing else changes and no Action is emitted.
C10_ChildOutput ==
  [][(Called /\ last'.event # STDIN) =>
      LET b == last'.ret
          prompt == IF last'.event = STDOUT
                    THEN ts.buf_i = <<>> /\ b # eof
                    ELSE ts.buf_i = <<>>
      IN /\ ts'.actions = ts.actions
         /\ n_uuid' = n_uuid
         /\ ts'.buf_i = ts.buf_i
         /\ ts'.start_time = ts.start_time
         /\ ts'.buf_ps1 = (IF prompt THEN ts.buf_ps1 \o b ELSE ts.buf_ps1)
         /\ ts'.buf_c = (IF prompt THEN ts.buf_c ELSE ts.buf_c \o b)
         /\ ts'.buf_o = (IF ~prompt /\ last'.event = STDOUT
                         THEN ts.buf_o \o b ELSE ts.buf_o)
         /\ ts'.buf_e = (IF ~prompt /\ last'.event = STDERR
                         THEN ts.buf_e \o b ELSE ts.buf_e)]_vars

\* wrap(STDERR, EOF) has just put the EOF byte in the prompt, where an
\* earlier wrap(STDOUT, EOF) had put it in buf_o and buf_c.
C10_Witness ==
  /\ last.event = STDERR
  /\ last.b = eof
  /\ ts.buf_i = <<>>
  /\ EndsWith(ts.buf_ps1, eof)
  /\ ts.buf_o = eof
  /\ ts.buf_c = eof

\* ------------------------------------------------------------------------
\* The terminal flush of the spool: C3, C6, C7
\* ------------------------------------------------------------------------
\* The step that runs the flush statements after the loop.
Flushing == pc = "flush" /\ pc' # "flush"

\* The Actions the step appended to the history.
Appended == Len(ts'.actions) - Len(ts.actions)

\* Everything observed up to position i is STDOUT (the prompt), positions
\* i+1..j are STDIN and are one line that ends with its only CR, the rest is
\* STDOUT and not empty.
SingleCommand(i, j) ==
  /\ i < j
  /\ j < Len(Observed)
  /\ \A k \in 1..Len(Observed) :
       Observed[k].event = (IF k <= i \/ k > j THEN STDOUT ELSE STDIN)
  /\ Observed[j].byte = CR
  /\ \A k \in (i + 1)..(j - 1) : Observed[k].byte \notin {CR, LF}

\* C3: when all that was observed is a prompt, one command line ended by a
\* carriage return and then stdout bytes X, the history after the terminal
\* flush is exactly one Action, with the typed line as command_input, X as
\* command_output, no command_error, and the prompt as prompt_ps1.
C3_Claim ==
  [][\A i, j \in 0..Len(Observed) :
       (Flushing /\ SingleCommand(i, j)) =>
         /\ Len(ts'.actions) = 1
         /\ ts'.actions[1].prompt_ps1 = Bytes(SubSeq(Observed, 1, i))
         /\ ts'.actions[1].command_input = Bytes(SubSeq(Observed, i + 1, j))
         /\ ts'.actions[1].command_output =
              Bytes(SubSeq(Observed, j + 1, Len(Observed)))
         /\ ts'.actions[1].command_error = <<>>]_vars

\* The child bytes of a tagged segment observed after its first STDIN byte.
RECURSIVE WhileRunning(_)
WhileRunning(sg) ==
  IF sg = <<>> THEN <<>>
  ELSE IF Head(sg).event = STDIN THEN SelectSeq(sg, IsChild)
  ELSE WhileRunning(Tail(sg))

IsStderr(x) == x.event = STDERR

\* The command in flight took input and the child has answered on stderr
\* only.
StderrOnly ==
  /\ \E k \in 1..Len(seg) : seg[k].event = STDIN
  /\ WhileRunning(seg) # <<>>
  /\ \A k \in 1..Len(WhileRunning(seg)) : WhileRunning(seg)[k].event = STDERR

\* C6: every Action of the history has as command_output the stdout bytes
\* and as command_error the stderr bytes observed while its command ran; and
\* the terminal flush closes a command that wrote to stderr only as an Action
\* with an empty command_output and those stderr bytes as command_error.
C6_Claim ==
  [][/\ \A i \in 1..Len(ts'.actions) :
          LET a == ts'.actions[i]
              w == WhileRunning(segs'[a.id])
          IN /\ a.command_output = Bytes(SelectSeq(w, IsStdout))
             /\ a.command_error = Bytes(SelectSeq(w, IsStderr))
     /\ (Flushing /\ StderrOnly) =>
          /\ Appended = 1
          /\ ts'.actions[Len(ts'.actions)].command_output = <<>>
          /\ ts'.actions[Len(ts'.actions)].command_error =
               Bytes(WhileRunning(seg))]_vars

\* C7: the flush after the loop appends exactly one Action to the history
\* when the segmenter holds an in-flight command (buf_i is not empty) and
\* none otherwise.
C7_Claim ==
  [][Flushing => Appended = (IF ts.buf_i # <<>> THEN 1 ELSE 0)]_vars

\* ------------------------------------------------------------------------
\* C11
\* ------------------------------------------------------------------------
\* C11: a call wrap(STDIN, b) that arrives while buf_c is empty appends no
\* Action; b is appended to buf_i and the other buffers of the open command
\* are left as they were.
C11_NoDoubleEmission ==
  [][(Called /\ last'.event = STDIN /\ ts.buf_c = <<>>) =>
       /\ ts'.actions = ts.actions
       /\ n_uuid' = n_uuid
       /\ ts'.buf_i = ts.buf_i \o last'.b
       /\ ts'.buf_ps1 = ts.buf_ps1
       /\ ts'.buf_o = ts.buf_o
       /\ ts'.buf_e = ts.buf_e
       /\ ts'.buf_c = ts.buf_c]_vars

\* Enter was pressed twice after a prompt with no child output in between:
\* both newlines are in buf_i and nothing was emitted.
C11_Witness ==
  /\ last.event = STDIN
  /\ ts.buf_ps1 # <<>>
  /\ EndsWith(ts.buf_i, <<LF, LF>>)
  /\ ts.buf_c = <<>>
  /\ n_uuid = 0

\* ------------------------------------------------------------------------
\* C12
\* ------------------------------------------------------------------------
\* C12: no Action of the history has prompt_ps1, command_input,
\* command_output, command_error and typescript all empty, and every Action
\* has a non-empty command_input.
C12_NoEmptyAction ==
  \A i \in 1..Len(ts.actions) :
    LET a == ts.actions[i] IN
      /\ a.command_input # <<>>
      /\ ~(/\ a.prompt_ps1 = <<>> /\ a.command_input = <<>>
           /\ a.command_output = <<>> /\ a.command_error = <<>>
           /\ a.typescript = <<>>)

\* The smallest Action, closed by the flush call wrap(STDIN, EOF CR LF): a
\* bare newline as input, no prompt, the EOF byte of wrap(STDOUT, EOF) as its
\* only output.
C12_Witness ==
  /\ last = [event |-> STDIN, b |-> eof \o crlf, ret |-> <<>>]
  /\ Len(ts.actions) = 1
  /\ ts.actions[1].prompt_ps1 = <<>>
  /\ ts.actions[1].command_input = <<LF>>
  /\ ts.actions[1].command_output = eof
  /\ ts.actions[1].command_error = <<>>

\* ------------------------------------------------------------------------
\* C13
\* ------------------------------------------------------------------------
RECURSIVE Chain(_, _)
\* The value that leaves a chain of handlers: the last handler applied to
\* what left the handlers registered before it.
Chain(hs, b) ==
  IF hs = <<>> THEN b
  ELSE ApplyHandler(hs[Len(hs)], Chain(SubSeq(hs, 1, Len(hs) - 1), b))

\* C13: wrap(event, b) passes b through the handlers registered for event,
\* and no others, in registration order, each taking what the one before
\* returned; the buffers grow by what left the chain, and wrap returns it,
\* except that the consumed EOF CR LF returns the empty string.
C13_Handlers ==
  [][Called =>
       LET e == last'.event
           f == Chain(ts.handlers[e], last'.b)
           emitted == n_uuid' > n_uuid
           consumed == e = STDIN /\ emitted /\ f = eof \o crlf
       IN /\ ts'.handlers = ts.handlers
          /\ last'.ret = (IF consumed THEN <<>> ELSE f)
          /\ e = STDOUT =>
               \/ /\ ts'.buf_ps1 = ts.buf_ps1 \o f
                  /\ ts'.buf_o = ts.buf_o /\ ts'.buf_c = ts.buf_c
               \/ /\ ts'.buf_o = ts.buf_o \o f /\ ts'.buf_c = ts.buf_c \o f
                  /\ ts'.buf_ps1 = ts.buf_ps1
          /\ e = STDERR =>
               \/ /\ ts'.buf_ps1 = ts.buf_ps1 \o f
                  /\ ts'.buf_e = ts.buf_e /\ ts'.buf_c = ts.buf_c
               \/ /\ ts'.buf_e = ts.buf_e \o f /\ ts'.buf_c = ts.buf_c \o f
                  /\ ts'.buf_ps1 = ts.buf_ps1
          /\ (e = STDIN /\ ~emitted) =>
               \/ ts'.buf_i = ts.buf_i \o f /\ ts'.buf_ps1 = ts.buf_ps1
               \/ ts'.buf_ps1 = ts.buf_ps1 \o f /\ ts'.buf_i = ts.buf_i
          /\ (e = STDIN /\ emitted) =>
               /\ ts'.buf_i = (IF consumed THEN <<>> ELSE f)
               /\ ts'.buf_ps1 = <<>>]_vars

\* Two handlers that do not commute are registered for STDIN and another
\* one for STDOUT; CR LF went in, LF came out and is what buf_i holds.
C13_Witness ==
  /\ ts.handlers[STDIN] = <<"lf2crlf", "dropcr">>
  /\ ts.handlers[STDOUT] = <<"veto">>
  /\ last = [event |-> STDIN, b |-> crlf, ret |-> <<LF>>]
  /\ ts.buf_i = <<LF>>

\* ------------------------------------------------------------------------
\* C14, C15
\* ------------------------------------------------------------------------
\* C14: under a clock that never goes back, every Action of the history has
\* time_elapsed >= 0, and of two Actions emitted one after the other the
\* later does not start before the earlier.
C14_MonotoneTiming ==
  /\ \A i \in 1..Len(ts.actions) : ts.actions[i].time_elapsed >= 0
  /\ \A i \in 1..(Len(ts.actions) - 1) :
       ts.actions[i].time_started <= ts.actions[i + 1].time_started

\* Two Actions in the history, each of which took time, the second started
\* after the first.
C14_Witness ==
  /\ Len(ts.actions) = 2
  /\ ts.actions[1].time_elapsed > 0
  /\ ts.actions[2].time_elapsed > 0
  /\ ts.actions[1].time_started < ts.actions[2].time_started

\* The step appended an Action.
Emitted == n_uuid' = n_uuid + 1

\* C15: the time_started of an Action is the reading of the clock when the
\* first byte of its prompt or of its input was observed, whichever came
\* first.
C15_Claim ==
  [][Emitted => ts'.actions[Len(ts'.actions)].time_started = seg_t0]_vars

\* ------------------------------------------------------------------------
\* The multiplexer: C16, C17, C18, C19
\* ------------------------------------------------------------------------
\* C16: while the loop's buf_i is at or above waterlevel, no step makes it
\* longer and no step reads real stdin; reading resumes only after a write to
\* the master has brought buf_i below waterlevel.
C16_Backpressure ==
  [][(pc = "loop" /\ Len(buf_i) >= WaterLevel) =>
       /\ Len(buf_i') <= Len(buf_i)
       /\ io'.accepted = io.accepted]_vars

\* buf_i is above the water level because the pseudo-terminal is full, the
\* user has typed more, and the loop has gone on reading the child's output.
C16_Witness ==
  /\ pc = "loop"
  /\ Len(buf_i) >= WaterLevel
  /\ Len(pts_in) = PtyCap
  /\ tty_in # <<>>
  /\ buf_o # <<>>
  /\ cout = <<>>

\* The step read from the child's stdout pipe, from its stderr pipe.
ReadCout == nwritten' = nwritten /\ cout' # cout
ReadCerr == nwritten' = nwritten /\ cerr' # cerr

\* C17: a source is read only when its buffer is shorter than waterlevel
\* (real stdin into buf_i, the master into buf_p, the child's stdout into
\* buf_o, its stderr into buf_e), the master is written only when buf_i is
\* not empty, and no buffer grows beyond waterlevel + readsize - 1.
C17_Claim ==
  [][pc = "loop" =>
       /\ io'.accepted # io.accepted => Len(buf_i) < WaterLevel
       /\ io'.from_ptm # io.from_ptm => Len(buf_p) < WaterLevel
       /\ ReadCout => Len(buf_o) < WaterLevel
       /\ ReadCerr => Len(buf_e) < WaterLevel
       /\ io'.written # io.written => buf_i # <<>>
       /\ \A b \in {buf_i', buf_p', buf_o', buf_e'} :
            Len(b) <= WaterLevel + ReadSize - 1]_vars

\* C18: the bytes written to the master followed by buf_i are the bytes
\* accepted from real stdin, in read order; a write of n bytes takes the
\* first n bytes off buf_i; and at most waterlevel + readsize accepted bytes
\* are waiting to be written.
C18_Claim ==
  [][pc = "loop" =>
       /\ io'.written \o buf_i' = io'.accepted
       /\ \A n \in 1..Len(buf_i) :
            Len(io'.written) = Len(io.written) + n =>
              /\ io'.written = io.written \o Take(buf_i, n)
              /\ HasPrefix(buf_i', Drop(buf_i, n))
       /\ Len(io'.accepted) - Len(io'.written) <= WaterLevel + ReadSize]_vars

IsStdin(x) == x.event = STDIN

\* C19: the bytes handed to wrap as STDIN events are the bytes read from the
\* master when the slave echoes, and the bytes read from real stdin when it
\* does not; the other path hands wrap nothing.
C19_OnePath ==
  Bytes(SelectSeq(Observed, IsStdin)) =
    (IF echo THEN io.from_ptm ELSE io.accepted)

\* In echo mode a typed line has gone to the child and come back from
\* the master as CR LF, which is what wrap has seen; what was read from real
\* stdin differs from it.
C19_Witness ==
  /\ echo
  /\ io.accepted = <<KEY, CR>>
  /\ io.from_ptm = <<KEY>> \o crlf
  /\ Bytes(SelectSeq(Observed, IsStdin)) = <<KEY>> \o crlf

\* ------------------------------------------------------------------------
\* C20
\* ------------------------------------------------------------------------
\* C20: whichever way spool is left, the terminal attributes of the real
\* stdin are then the attributes it had when spool was called.
C20_RawModeRoundTrip ==
  pc = "done" => scope.stdin_attr = scope.entry_attr

\* A terminal found in cbreak mode was put in raw mode, the loop ran and
\* handed the child's output to wrap, the flush was reached, and the
\* teardown has put cbreak mode back.
C20_Witness ==
  /\ pc = "done"
  /\ scope.entry_attr = "cbreak"
  /\ scope.stdin_attr = "cbreak"
  /\ scope.restore = "yes"
  /\ scope.fds = "closed"
  /\ exc.caught = "TypeError"
  /\ nev > 0

\* ------------------------------------------------------------------------
\* C21
\* ------------------------------------------------------------------------
\* C21: wherever spool is left once the child was spawned, the child has
\* terminated, and a child found alive by the teardown was first asked to
\* terminate: SIGKILL is sent only to a child that was sent SIGTERM before.
C21_Claim ==
  pc = "done" /\ proc # "none" =>
    /\ proc # "running"
    /\ \A i \in 1..Len(scope.signals) :
         scope.signals[i] = "SIGKILL" =>
           i > 1 /\ scope.signals[i - 1] = "SIGTERM"

\* ------------------------------------------------------------------------
\* C22
\* ------------------------------------------------------------------------
\* C22: when the caller's block raised, or an error occurred in the loop,
\* spool is left with the child no longer running, the pseudo-terminal
\* closed, and that same error raised to the caller.
C22_Claim ==
  pc = "done" /\ proc # "none" /\ exc.caught \in {"Exception", "OSError"} =>
    /\ proc # "running"
    /\ scope.fds = "closed"
    /\ exc.raised = exc.caught

\* ------------------------------------------------------------------------
\* C23
\* ------------------------------------------------------------------------
\* C23: when spool is left after the child was spawned, the teardown has
\* taken its steps once each and in this order: the child, the real stdin
\* (when there is something to restore), the slave, the master, the SIGWINCH
\* handler; the handler of the caller is installed again.
C23_Claim ==
  pc = "done" /\ proc # "none" =>
    /\ scope.teardown \in { <<"child", "stdin", "pts", "ptm", "sigwinch">>,
                            <<"child", "pts", "ptm", "sigwinch">> }
    /\ scope.sigwinch = "caller"

\* ------------------------------------------------------------------------
\* C24
\* ------------------------------------------------------------------------
\* C24: a call of spool whose command does not resolve, whose bufsize is
\* below 1 or whose stdin is not a terminal goes no further than the checks:
\* it ends with PastaError raised, and no audit event was raised, no
\* pseudo-terminal opened, no child spawned, no signal handler installed and
\* the attributes of the real stdin are those found.
C24_Preconditions ==
  ~scope.which \/ scope.bufsize < 1 \/ ~scope.isatty =>
    /\ pc \in {"entry", "done"}
    /\ pc = "done" => exc = [raised |-> "PastaError", caught |-> "none"]
    /\ scope.audit = 0
    /\ scope.fds = "none"
    /\ proc = "none"
    /\ scope.sigwinch = "caller"
    /\ scope.stdin_attr = scope.entry_attr
    /\ scope.signals = <<>> /\ scope.teardown = <<>>
    /\ nev = 0

\* spool was called with a command that resolves and a valid bufsize, but
\* with a stdin that is no terminal, and has raised PastaError.
C24_Witness ==
  /\ pc = "done"
  /\ scope.which /\ scope.bufsize >= 1 /\ ~scope.isatty
  /\ exc.raised = "PastaError"

\* ------------------------------------------------------------------------
\* C25
\* ------------------------------------------------------------------------
\* C25: a step in which a read or a write of the master fails with EAGAIN
\* leaves spool in the loop, with the child as it was and no exception
\* raised or caught; the failed read leaves buf_p and the segmenter as they
\* were, the failed write leaves buf_i untrimmed.
C25_Claim ==
  [][scope.eagain = "none" /\ scope'.eagain # "none" =>
       /\ pc' = "loop"
       /\ proc' = proc
       /\ exc' = exc
       /\ scope'.eagain = "read" => buf_p' = buf_p /\ ts' = ts
       /\ scope'.eagain = "write" => pts_in' = pts_in]_vars

\* ------------------------------------------------------------------------
\* C26
\* ------------------------------------------------------------------------
\* C26: the loop is left for the flush only once the child has terminated,
\* and a pipe whose read has returned nothing is no longer in the read set.
C26_Claim ==
  [][/\ pc = "loop" /\ pc' = "flush" => proc # "running"
     /\ pc' = "loop" /\ io'.empty_o => ~InRfdsStdout(Machine')
     /\ pc' = "loop" /\ io'.empty_e => ~InRfdsStderr(Machine')]_vars

\* ------------------------------------------------------------------------
\* C27
\* ------------------------------------------------------------------------
OnlyEof(b) == \A i \in 1..Len(b) : b[i] = CEOF

\* C27: whenever buf_i is empty, buf_e is empty and buf_o = buf_c holds EOF
\* bytes only; and a STDIN event never adds to buf_ps1: what wrap returns
\* for it is appended to buf_i, after the boundary if there was one.
C27_InputEmpty ==
  /\ [](ts.buf_i = <<>> =>
          ts.buf_e = <<>> /\ ts.buf_o = ts.buf_c /\ OnlyEof(ts.buf_c))
  /\ [][nev' = nev + 1 /\ last'.event = STDIN =>
          /\ ts'.buf_ps1 \in {ts.buf_ps1, <<>>}
          /\ ts'.buf_i \in {ts.buf_i \o last'.ret, last'.ret}]_vars

\* With buf_i empty and EOF bytes in buf_c, a STDIN event has arrived and
\* its byte is the whole of buf_i; the prompt is as it was.
C27_Witness ==
  /\ last.event = STDIN
  /\ ts.buf_i = <<KEY>>
  /\ ts.buf_c = eof \o eof
  /\ ts.buf_o = ts.buf_c
  /\ ts.buf_ps1 = <<PROMPT>>

\* ------------------------------------------------------------------------
\* C28
\* ------------------------------------------------------------------------
\* The step is a wrap call that appends an Action.
Appends == n_uuid' = n_uuid + 1

\* The Action the step appends.
Newest == ts'.actions[Len(ts'.actions)]

\* The open command began with a STDIN event EOF CR LF, which the boundary
\* before it consumed.
BeganConsumed ==
  /\ Len(seg) >= 3
  /\ \A i \in 1..3 : seg[i].event = STDIN
  /\ <<seg[1].byte, seg[2].byte, seg[3].byte>> = eof \o crlf

StdinSeen == Bytes(SelectSeq(Observed, IsStdin))

Untouched ==
  /\ nev = 0
  /\ ts.actions = <<>>
  /\ ts.buf_i = <<>> /\ ts.buf_ps1 = <<>> /\ ts.buf_o = <<>>
  /\ ts.buf_e = <<>> /\ ts.buf_c = <<>>

\* The caller's block has raised.
BlockRaised == "Exception" \in {exc.raised, exc.caught}

\* C30: up to the end of the caller's block wrap has not been called, the
\* real stdin has the attributes it was found with, and the history and the
\* buffers of the Typescript are empty; when the block has raised, the loop
\* and the flush are never entered and all of this is still so when spool
\* is left; an Action is only ever seen after the block has ended normally.
C30_BlockFirst ==
  /\ pc \in {"entry", "setup", "try", "yield", "setraw"} =>
       Untouched /\ scope.stdin_attr = scope.entry_attr
  /\ BlockRaised =>
       /\ pc \in {"except", "finally", "done"}
       /\ Untouched
       /\ scope.stdin_attr = scope.entry_attr
  /\ ts.actions # <<>> =>
       pc \in {"loop", "flush", "except", "finally", "done"} /\ ~BlockRaised

\* The caller's block has raised with the child running: spool is left with
\* the child killed, the terminal as found and nothing in the Typescript.
C30_Witness ==
  /\ pc = "done"
  /\ exc.caught = "Exception"
  /\ proc = "killed"
  /\ scope.fds = "closed"
  /\ Untouched

====
